---- MODULE Spec2Model ----
(***************************************************************************)
(* Model of apply-fixes.py: a script that reads one template file, applies *)
(* seven literal str.replace edits (Fix #1 .. Fix #4) to the in-memory     *)
(* buffer, writes the buffer back and prints a report.                     *)
(*                                                                         *)
(* Text is modelled as a sequence of chunks.  The chunk "**" is the        *)
(* markdown bold delimiter with which several of the script's literals     *)
(* begin or end; it is kept as a chunk of its own because it is the only   *)
(* text on which two literals of the script can overlap.  Every other      *)
(* chunk stands for the rest of one literal.                               *)
(***************************************************************************)
EXTENDS Integers, Sequences, FiniteSets

\* ------------------------------------------------------------------ bounds
\* number of chunks-of-text an input document is assembled from
MaxPieces == 3
\* number of times the script is invoked on the same file
MaxRuns == 2

\* ------------------------------------------------------- the script's literals
ss == "**"

\* Fix #1, heading: '**APO-2: Update Existing Business Logic Documentation**'
apo2_heading == <<ss, "APO-2: Update Existing", ss>>
\* its replacement begins with '**' and ends with 'exist)'
apo2_heading_new == <<ss, "APO-2: Tightly-Coupled">>

\* Fix #1, YES line
yes_line == <<"YES updates existing">>
yes_line_new == <<"YES creates OR updates">>

\* Fix #2
step_32_marker == <<"Step 3.2">>
step_31a == <<"Step 3.1A">>

\* Fix #3, APO-2 step 3: '**For each component:** ... source code**'
apo2_step3 == <<ss, "For each component", ss>>
apo2_step3_new == <<ss, "For each component / must be CREATED", ss>>

\* Fix #3, APO-2 apply: '4. **Apply updates ... cross-references**'
apo2_apply == <<"4. Apply / 5. Update cross-references", ss>>
apo2_apply_new == <<"4. Apply / 5. Create or update / 6. Update cross-references", ss>>

\* Fix #3, APO-3 creation: '\n\n**For each component, create ... location:**'
apo3_creation == <<"create NEW documentation file", ss>>
apo3_creation_new == <<"create NEW documentation file using Write tool", ss>>

\* Fix #4
phase2_completion == <<"Phase 2 Completion">>
continuation == <<"Phase 2 Continuation Protocol">>
update_global_state == <<"Update global state", ss>>
phase2_old == phase2_completion \o update_global_state
phase2_new == phase2_completion \o continuation \o update_global_state

\* the five lines printed at the end of the script
ReportLines == <<"All 4 fixes applied successfully:", "Fix #1", "Fix #2", "Fix #3", "Fix #4">>

\* ------------------------------------------------------------ str operations
\* m occurs in s at position i
MatchAt(s, m, i) ==
    /\ i + Len(m) - 1 <= Len(s)
    /\ \A j \in 1..Len(m) : s[i + j - 1] = m[j]

\* Python's `m in s`
Contains(s, m) == \E i \in 1..Len(s) : MatchAt(s, m, i)

\* str.replace(m, r, 1): only the leftmost occurrence
RECURSIVE ReplaceFirstFrom(_, _, _, _)
ReplaceFirstFrom(s, m, r, i) ==
    IF i > Len(s) THEN <<>>
    ELSE IF MatchAt(s, m, i) THEN r \o SubSeq(s, i + Len(m), Len(s))
    ELSE <<s[i]>> \o ReplaceFirstFrom(s, m, r, i + 1)

ReplaceFirst(s, m, r) == ReplaceFirstFrom(s, m, r, 1)

\* str.replace(m, r): every non-overlapping occurrence, scanning left to right
RECURSIVE ReplaceFrom(_, _, _, _)
ReplaceFrom(s, m, r, i) ==
    IF i > Len(s) THEN <<>>
    ELSE IF MatchAt(s, m, i) THEN r \o ReplaceFrom(s, m, r, i + Len(m))
    ELSE <<s[i]>> \o ReplaceFrom(s, m, r, i + 1)

Replace(s, m, r) == ReplaceFrom(s, m, r, 1)

\* ------------------------------------------------------------------ the edits
Fixes == 1..7

Matcher(k) ==
    CASE k = 1 -> apo2_heading
      [] k = 2 -> yes_line
      [] k = 3 -> step_32_marker
      [] k = 4 -> apo2_step3
      [] k = 5 -> apo2_apply
      [] k = 6 -> apo3_creation
      [] k = 7 -> phase2_old

Replacement(k) ==
    CASE k = 1 -> apo2_heading_new
      [] k = 2 -> yes_line_new
      [] k = 3 -> step_31a \o step_32_marker
      [] k = 4 -> apo2_step3_new
      [] k = 5 -> apo2_apply_new
      [] k = 6 -> apo3_creation_new
      [] k = 7 -> phase2_new

\* the text whose presence tells that edit k was applied before
Applied(k) == IF k = 3 THEN step_31a ELSE Replacement(k)

Fix1Heading(c) == Replace(c, apo2_heading, apo2_heading_new)

Fix1YesLine(c) == Replace(c, yes_line, yes_line_new)

\* Fix #2 without its guard
Fix2Unguarded(c) == Replace(c, step_32_marker, step_31a \o step_32_marker)

\* Fix #2 with the block put after the marker
Fix2AfterMarker(c) ==
    IF ~Contains(c, step_31a)
    THEN Replace(c, step_32_marker, step_32_marker \o step_31a)
    ELSE c

Fix2(c) ==
    IF ~Contains(c, step_31a)
    THEN Replace(c, step_32_marker, step_31a \o step_32_marker)
    ELSE c

Fix3Step3(c) == Replace(c, apo2_step3, apo2_step3_new)

Fix3Apply(c) == Replace(c, apo2_apply, apo2_apply_new)

Fix3Apo3(c) == Replace(c, apo3_creation, apo3_creation_new)

Fix4(c) == Replace(c, phase2_old, phase2_new)

ApplyFix(k, c) ==
    CASE k = 1 -> Fix1Heading(c)
      [] k = 2 -> Fix1YesLine(c)
      [] k = 3 -> Fix2(c)
      [] k = 4 -> Fix3Step3(c)
      [] k = 5 -> Fix3Apply(c)
      [] k = 6 -> Fix3Apo3(c)
      [] k = 7 -> Fix4(c)

\* ---------------------------------------------------------- input documents
\* the chunks of text an input document is assembled from: every matcher, the
\* replacement of the first edit, the Step 3.1A block, a lone '**', the
\* inside of the APO-2 step 3 literal and some unrelated text
Pieces ==
    { Matcher(k) : k \in Fixes }
    \cup { apo2_heading_new, step_31a, <<ss>>, <<"For each component">>,
           <<"other text">> }

RECURSIVE Concat(_, _)
Concat(ps, n) == IF n = 0 THEN <<>> ELSE Concat(ps, n - 1) \o ps[n]

Documents ==
    UNION { { Concat(ps, n) : ps \in [1..n -> Pieces] } : n \in 0..MaxPieces }

\* ---------------------------------------------------------------------- state
VARIABLES
    disk,       \* content of the file at template_path
    content,    \* the script's buffer
    pc,         \* position in the script
    stdout,     \* lines printed by this run
    exitCode,   \* -1 while running, then the process's exit code
    run,        \* number of the current invocation
    doc0,       \* history: the file before the first invocation
    orig,       \* history: what this run read
    before,     \* history: the buffer before the last edit
    last,       \* history: number of the last edit executed in this run
    missed,     \* history: edits that found neither matcher nor applied text
    reads,      \* history: reads of the file in this run
    writes      \* history: writes of the file in this run

vars == <<disk, content, pc, stdout, exitCode, run, doc0, orig, before, last,
          missed, reads, writes>>

hist == <<doc0>>

Init ==
    /\ disk \in Documents
    /\ doc0 = disk
    /\ content = <<>>
    /\ pc = "start"
    /\ stdout = <<>>
    /\ exitCode = -1
    /\ run = 1
    /\ orig = <<>>
    /\ before = <<>>
    /\ last = 0
    /\ missed = {}
    /\ reads = 0
    /\ writes = 0

\* with open(template_path, 'r') as f: content = f.read()
Read ==
    /\ pc = "start"
    /\ content' = disk
    /\ orig' = disk
    /\ before' = disk
    /\ reads' = reads + 1
    /\ pc' = "fix1a"
    /\ UNCHANGED <<disk, stdout, exitCode, run, last, missed, writes, hist>>

\* open(template_path, 'r') raises: the script ends with a traceback
ReadFails ==
    /\ pc = "start"
    /\ pc' = "crashed"
    /\ exitCode' = 1
    /\ UNCHANGED <<disk, content, stdout, run, orig, before, last, missed,
                   reads, writes, hist>>

\* one `content = content.replace(...)` statement (guarded for Fix #2)
Edit(k, here, next, new) ==
    /\ pc = here
    /\ before' = content
    /\ content' = new
    /\ last' = k
    /\ missed' = IF ~Contains(content, Matcher(k)) /\ ~Contains(content, Applied(k))
                 THEN missed \cup {k} ELSE missed
    /\ pc' = next
    /\ UNCHANGED <<disk, stdout, exitCode, run, orig, reads, writes, hist>>

DoFix1Heading == Edit(1, "fix1a", "fix1b", Fix1Heading(content))

\* the YES-line edit applied to the text that was read, not to the buffer
DoFix1YesLineStale == Edit(2, "fix1b", "fix2", Fix1YesLine(orig))

DoFix1YesLine == Edit(2, "fix1b", "fix2", Fix1YesLine(content))

DoFix2 == Edit(3, "fix2", "fix3a", Fix2(content))

DoFix3Step3 == Edit(4, "fix3a", "fix3b", Fix3Step3(content))

DoFix3Apply == Edit(5, "fix3b", "fix3c", Fix3Apply(content))

\* the APO-3 edit followed by a save of the buffer
DoFix3Apo3Saving ==
    /\ pc = "fix3c"
    /\ before' = content
    /\ content' = Fix3Apo3(content)
    /\ disk' = Fix3Apo3(content)
    /\ last' = 6
    /\ missed' = IF ~Contains(content, Matcher(6)) /\ ~Contains(content, Applied(6))
                 THEN missed \cup {6} ELSE missed
    /\ pc' = "fix4"
    /\ UNCHANGED <<stdout, exitCode, run, orig, reads, writes, hist>>

DoFix3Apo3 == Edit(6, "fix3c", "fix4", Fix3Apo3(content))

DoFix4 == Edit(7, "fix4", "write", Fix4(content))

\* with open(template_path, 'w') as f: f.write(content)
Write ==
    /\ pc = "write"
    /\ disk' = content
    /\ writes' = writes + 1
    /\ pc' = "print"
    /\ UNCHANGED <<content, stdout, exitCode, run, orig, before, last, missed,
                   reads, hist>>

\* open(template_path, 'w') raises: the script ends with a traceback
WriteFails ==
    /\ pc = "write"
    /\ pc' = "crashed"
    /\ exitCode' = 1
    /\ UNCHANGED <<disk, content, stdout, run, orig, before, last, missed,
                   reads, writes, hist>>

\* the five print calls; the script then ends normally
Report ==
    /\ pc = "print"
    /\ stdout' = ReportLines
    /\ exitCode' = 0
    /\ pc' = "done"
    /\ UNCHANGED <<disk, content, run, orig, before, last, missed, reads,
                   writes, hist>>

\* the script is invoked again on the file it has patched
Rerun ==
    /\ pc = "done"
    /\ run < MaxRuns
    /\ run' = run + 1
    /\ pc' = "start"
    /\ content' = <<>>
    /\ stdout' = <<>>
    /\ exitCode' = -1
    /\ orig' = <<>>
    /\ before' = <<>>
    /\ last' = 0
    /\ missed' = {}
    /\ reads' = 0
    /\ writes' = 0
    /\ UNCHANGED <<disk, doc0>>

Next ==
    \/ Read
    \/ ReadFails
    \/ DoFix1Heading
    \/ DoFix1YesLine
    \/ DoFix2
    \/ DoFix3Step3
    \/ DoFix3Apply
    \/ DoFix3Apo3
    \/ DoFix4
    \/ Write
    \/ WriteFails
    \/ Report
    \/ Rerun

Spec == Init /\ [][Next]_vars

\* ---------------------------------------------------------- claim vocabulary
\* Python's s.count(m): non-overlapping occurrences, scanning left to right
RECURSIVE CountFrom(_, _, _)
CountFrom(s, m, i) ==
    IF i > Len(s) THEN 0
    ELSE IF MatchAt(s, m, i) THEN 1 + CountFrom(s, m, i + Len(m))
    ELSE CountFrom(s, m, i + 1)

Count(s, m) == CountFrom(s, m, 1)

\* the number of copies of the Step 3.1A block that end right before position i
RECURSIVE BlocksBefore(_, _)
BlocksBefore(s, i) ==
    IF i > 1 /\ s[i - 1] = step_31a[1] THEN 1 + BlocksBefore(s, i - 1) ELSE 0

\* every Step 3.2 marker of s is preceded by exactly one copy of the block
OneBlockPerMarker(s) ==
    \A i \in 1..Len(s) : s[i] = step_32_marker[1] => BlocksBefore(s, i) = 1

\* s with the block put before each Step 3.2 marker
RECURSIVE InsertBeforeMarkers(_)
InsertBeforeMarkers(s) ==
    IF s = <<>> THEN <<>>
    ELSE (IF Head(s) = step_32_marker[1] THEN step_31a \o step_32_marker ELSE <<Head(s)>>)
         \o InsertBeforeMarkers(Tail(s))

\* the first k edits of the script, in their listed order, applied to c
RECURSIVE FixesUpTo(_, _)
FixesUpTo(k, c) == IF k = 0 THEN c ELSE ApplyFix(k, FixesUpTo(k - 1, c))

\* the script position reached after edit k
PcAfter(k) ==
    CASE k = 0 -> "fix1a" [] k = 1 -> "fix1b" [] k = 2 -> "fix2" [] k = 3 -> "fix3a"
      [] k = 4 -> "fix3b" [] k = 5 -> "fix3c" [] k = 6 -> "fix4" [] k = 7 -> "write"

Editing == { PcAfter(k) : k \in 0..7 }

Ended == pc \in {"done", "crashed"}

\* an edit has just run: the buffer is its result and `before` its input
JustEdited(k) == last = k /\ pc = PcAfter(k)

\* ------------------------------------------------------------------- claims

\* C1 (as claimed): atomicity - when some edit found neither its matcher nor
\* its already-applied text, the file on disk after the run is exactly what
\* the run read.
C1_Atomicity == (Ended /\ missed # {}) => disk = orig

\* C2 (as claimed): idempotence - a run on the output of a completed run
\* leaves the document as that first run left it, run(run(D)) = run(D).
C2_Idempotence == (pc = "done" /\ run >= 2) => disk = orig

\* C3 (as claimed): an edit replaces only the first occurrence of its
\* matcher; when the matcher occurs two or more times the later occurrences
\* stay as they were.
C3_FirstOccurrenceOnly ==
    \A k \in Fixes :
        (JustEdited(k) /\ Count(before, Matcher(k)) >= 2 /\ content # before)
            => content = ReplaceFirst(before, Matcher(k), Replacement(k))

\* C3 (amended): an edit that takes effect replaces every non-overlapping
\* occurrence of its matcher, scanning left to right: the buffer grows by
\* the size difference once per occurrence and holds at least as many
\* copies of the replacement as there were occurrences of the matcher.
C3_EveryOccurrenceReplaced ==
    \A k \in Fixes :
        (JustEdited(k) /\ (k = 3 => ~Contains(before, step_31a)))
            => /\ Len(content) = Len(before)
                    + Count(before, Matcher(k)) * (Len(Replacement(k)) - Len(Matcher(k)))
               /\ Count(content, Replacement(k)) >= Count(before, Matcher(k))

C3_Witness ==
    \E k \in Fixes :
        /\ JustEdited(k)
        /\ Count(before, Matcher(k)) >= 2
        /\ Count(content, Replacement(k)) >= 2
        /\ content # ReplaceFirst(before, Matcher(k), Replacement(k))

\* C4 (as claimed): the run ends with exit code 0 only when every edit was
\* applied or already present; when some edit's matcher was not found the
\* exit code is not 0.
C4_ExitBehaviour == (Ended /\ missed # {}) => exitCode # 0

\* C5 (as claimed): the success line is printed only in runs in which no
\* edit's matcher was not found.
C5_SuccessLineOnlyOnSuccess == (stdout # <<>>) => missed = {}

C7_Lifecycle ==
    /\ [](/\ reads <= 1 /\ writes <= 1
          /\ (pc \in Editing \cup {"print", "done"} => reads = 1)
          /\ (pc \in Editing => (disk = orig /\ writes = 0))
          /\ (writes = 1 => (pc \in {"print", "done"} /\ last = 7 /\ disk = content)))
    /\ [][disk' # disk => (pc = "write" /\ last = 7 /\ disk' = content)]_vars

C7_Witness == pc = "done" /\ reads = 1 /\ writes = 1 /\ disk # orig

\* C8: order preservation - the edits run in their listed order, each on the
\* buffer the previous one produced: after edit k the buffer is the first k
\* edits, composed in order, applied to the text that was read.
C8_OrderPreservation ==
    (pc \in Editing \cup {"print", "done"}) =>
        /\ last \in 0..7
        /\ (pc \in Editing => pc = PcAfter(last))
        /\ content = FixesUpTo(last, orig)
        /\ (last > 0 => content = ApplyFix(last, before))

\* the heading's edit came first and consumed the '**' that the matcher
\* of the later APO-2 step 3 edit began with
C8_Witness ==
    /\ pc = "write"
    /\ Contains(orig, apo2_heading)
    /\ Contains(orig, apo2_step3)
    /\ Contains(content, apo2_heading_new)
    /\ ~Contains(content, apo2_step3)
    /\ ~Contains(content, apo2_step3_new)

\* C10 (as claimed): the block is inserted only when it is absent from the
\* whole buffer, and then before every Step 3.2 marker; so after any number
\* of runs every Step 3.2 marker is preceded by exactly one copy of the block.
C10_Fix2ExactlyOne ==
    /\ JustEdited(3) =>
          content = (IF Contains(before, step_31a) THEN before
                     ELSE InsertBeforeMarkers(before))
    /\ pc = "done" => OneBlockPerMarker(disk)

\* C10 (amended): the block is inserted only when it is absent from the whole
\* buffer, and then before every Step 3.2 marker; so when the original
\* document does not contain the block, after any number of completed runs
\* every Step 3.2 marker is preceded by exactly one copy of it, and when the
\* original document contains the block Fix #2 never changes the buffer.
C10_Fix2Amended ==
    /\ JustEdited(3) =>
          content = (IF Contains(before, step_31a) THEN before
                     ELSE InsertBeforeMarkers(before))
    /\ (pc = "done" /\ ~Contains(doc0, step_31a)) => OneBlockPerMarker(disk)
    /\ (JustEdited(3) /\ Contains(doc0, step_31a)) => content = before

C10_Witness ==
    /\ pc = "done"
    /\ run >= 2
    /\ ~Contains(doc0, step_31a)
    /\ Count(doc0, step_32_marker) >= 2
    /\ Count(disk, step_31a \o step_32_marker) = Count(doc0, step_32_marker)

====
